---- MODULE Spec2Model ----
(***************************************************************************)
(* CodeAlchemy: the text-diff engine (src/utils/DiffMatchPatch.js) and the *)
(* animated replay of a diff against an open document                      *)
(* (src/operations/fileAnimations.js), with the part of                    *)
(* updateProjectInWorkspace that calls the replay.                         *)
(*                                                                         *)
(* A string is a sequence of one-character strings; a diff tuple           *)
(* [operation, text] is the pair <<operation, text>> with operation -1     *)
(* (deletion), 0 (unchanged) or 1 (insertion).                             *)
(***************************************************************************)
EXTENDS Integers, Sequences, FiniteSets, TLC

\* ------------------------------------------------------------------ bounds

\* Longest old/new text explored.
MaxLen == 3

\* Longest hand-made diff sequence given to diff_cleanupMerge.
MaxOps == 3

\* Longest text of an op in a hand-made diff sequence.
MaxOpLen == 1

Alphabet == {"a", "b"}

StringsOfLen(n) == [1..n -> Alphabet]

StringsUpTo(n) == UNION {StringsOfLen(k) : k \in 0..n}

Strings == StringsUpTo(MaxLen)

Ops == {-1, 0, 1}

DiffTuples == {<<o, t>> : o \in Ops, t \in StringsUpTo(MaxOpLen)}

DiffSeqsOfLen(n) == [1..n -> DiffTuples]

\* ------------------------------------------------- JavaScript string helpers

Min(x, y) == IF x <= y THEN x ELSE y

Max(x, y) == IF x >= y THEN x ELSE y

\* String.prototype.slice(start, end) for the non-negative indices the
\* code uses: clamped to [0, length], empty when start >= end.
slice(s, start, end) ==
    SubSeq(s, Max(0, Min(start, Len(s))) + 1, Max(0, Min(end, Len(s))))

sliceFrom(s, start) == slice(s, start, Len(s))

\* A substring that does not swap its indices: empty when start > end.
substring_unswapped(s, start, end) ==
    SubSeq(s, Max(0, Min(start, Len(s))) + 1, Max(0, Min(end, Len(s))))

\* String.prototype.substring(start, end): both indices are clamped to
\* [0, length] and swapped when start > end.
substring(s, start, end) ==
    LET cs == Max(0, Min(start, Len(s)))
        ce == Max(0, Min(end, Len(s)))
    IN  SubSeq(s, Min(cs, ce) + 1, Max(cs, ce))

\* String.prototype.substring(start): to the end of the string.
substringFrom(s, start) == substring(s, start, Len(s))

\* String.prototype.charAt(i): the empty string outside the string.
charAt(s, i) == IF i >= 0 /\ i < Len(s) THEN <<s[i + 1]>> ELSE <<>>

\* String.prototype.indexOf(text): the first offset at which text occurs,
\* -1 when it does not occur.
indexOf(s, text) ==
    LET hits == {k \in 0..(Len(s) - Len(text)) :
                    SubSeq(s, k + 1, k + Len(text)) = text}
    IN  IF hits = {} THEN -1
        ELSE CHOOSE k \in hits : \A j \in hits : k <= j

\* ------------------------------------------------------ DiffMatchPatch.js

RECURSIVE commonPrefixLoop(_, _, _, _)
commonPrefixLoop(text1, text2, i, n) ==
    IF i < n
    THEN IF charAt(text1, i) # charAt(text2, i)
         THEN i
         ELSE commonPrefixLoop(text1, text2, i + 1, n)
    ELSE n

diff_commonPrefix(text1, text2) ==
    commonPrefixLoop(text1, text2, 0, Min(Len(text1), Len(text2)))

RECURSIVE commonSuffixLoop(_, _, _, _)
commonSuffixLoop(text1, text2, i, n) ==
    IF i <= n
    THEN IF charAt(text1, Len(text1) - i) # charAt(text2, Len(text2) - i)
         THEN i - 1
         ELSE commonSuffixLoop(text1, text2, i + 1, n)
    ELSE n

diff_commonSuffix(text1, text2) ==
    commonSuffixLoop(text1, text2, 1, Min(Len(text1), Len(text2)))

diff_computeSimple(text1, text2) ==
    IF text1 # <<>> /\ text2 # <<>>
    THEN << <<-1, text1>>, <<1, text2>> >>
    ELSE IF text1 # <<>> THEN << <<-1, text1>> >>
    ELSE IF text2 # <<>> THEN << <<1, text2>> >>
    ELSE <<>>

\* The while loop of diff_cleanupMerge: diffs[i] is merged into the top of
\* the stack when it has the same operation, pushed otherwise.
RECURSIVE cleanupMergeLoop(_, _, _)
cleanupMergeLoop(diffs, i, stack) ==
    IF i < Len(diffs)
    THEN LET d == diffs[i + 1]
             n == Len(stack)
         IN  IF n > 0 /\ stack[n][1] = d[1]
             THEN cleanupMergeLoop(diffs, i + 1,
                      [stack EXCEPT ![n] = <<stack[n][1], stack[n][2] \o d[2]>>])
             ELSE cleanupMergeLoop(diffs, i + 1, Append(stack, d))
    ELSE stack

\* A merge pass that joins diffs[i] with diffs[i+1] and then steps over both,
\* so a run of three equal operations is left as two ops.
RECURSIVE cleanupMergePairwise(_, _, _)
cleanupMergePairwise(diffs, i, stack) ==
    IF i < Len(diffs)
    THEN IF i + 1 < Len(diffs) /\ diffs[i + 1][1] = diffs[i + 2][1]
         THEN cleanupMergePairwise(diffs, i + 2,
                  Append(stack, <<diffs[i + 1][1], diffs[i + 1][2] \o diffs[i + 2][2]>>))
         ELSE cleanupMergePairwise(diffs, i + 1, Append(stack, diffs[i + 1]))
    ELSE stack

diff_cleanupMerge_pairwise(diffs) ==
    IF Len(diffs) = 0 THEN diffs ELSE cleanupMergePairwise(diffs, 0, <<>>)

\* diff_cleanupMerge rewrites the array in place; the operator gives the
\* array's content after the call.
diff_cleanupMerge(diffs) ==
    IF Len(diffs) = 0 THEN diffs ELSE cleanupMergeLoop(diffs, 0, <<>>)

diff_cleanupSemantic(diffs) == diff_cleanupMerge(diffs)

\* The equality check without the test for the empty string.
diff_main_equal_unguarded(text1) == << <<0, text1>> >>

\* if (text1 === text2): lines 24-29
diff_main_equal(text1) ==
    IF text1 # <<>> THEN << <<0, text1>> >> ELSE <<>>

\* The simple case with the two operations exchanged.
diff_main_trimmed_exchanged(t1, t2, commonPrefix, commonSuffix) ==
    IF t1 = <<>> THEN << <<-1, t2>> >>
    ELSE IF t2 = <<>> THEN << <<1, t1>> >>
    ELSE diff_cleanupMerge(diff_computeSimple(t1, t2))

\* Lines 38-58, after text1 and text2 were reassigned to the stripped
\* remainders t1 and t2: the prefix and the suffix that are added back are
\* cut from the reassigned text1.
diff_main_trimmed(t1, t2, commonPrefix, commonSuffix) ==
    IF t1 = <<>> THEN << <<1, t2>> >>
    ELSE IF t2 = <<>> THEN << <<-1, t1>> >>
    ELSE LET diffs == diff_computeSimple(t1, t2)
             pre == IF commonPrefix # 0
                    THEN << <<0, substring(t1, 0, commonPrefix)>> >>
                    ELSE <<>>
             suf == IF commonSuffix # 0
                    THEN << <<0, substringFrom(t1, Len(t1) - commonSuffix)>> >>
                    ELSE <<>>
         IN  diff_cleanupMerge(pre \o diffs \o suf)

\* Line 32: the common prefix diff_main trims.
diff_main_commonPrefix(text1, text2) == diff_commonPrefix(text1, text2)

\* Line 33: the common suffix diff_main trims, taken on the untrimmed texts.
diff_main_commonSuffix(text1, text2) == diff_commonSuffix(text1, text2)

diff_main(text1, text2) ==
    IF text1 = text2
    THEN diff_main_equal(text1)
    ELSE LET commonPrefix == diff_main_commonPrefix(text1, text2)
             commonSuffix == diff_main_commonSuffix(text1, text2)
         IN  diff_main_trimmed(
                 substring(text1, commonPrefix, Len(text1) - commonSuffix),
                 substring(text2, commonPrefix, Len(text2) - commonSuffix),
                 commonPrefix, commonSuffix)

\* ------------------------------------------------- reading a diff sequence

RECURSIVE ConcatKinds(_, _)
ConcatKinds(diffs, kinds) ==
    IF diffs = <<>> THEN <<>>
    ELSE (IF Head(diffs)[1] \in kinds THEN Head(diffs)[2] ELSE <<>>)
         \o ConcatKinds(Tail(diffs), kinds)

SourceText(diffs) == ConcatKinds(diffs, {-1, 0})

TargetText(diffs) == ConcatKinds(diffs, {0, 1})

NoAdjacentSameKind(diffs) ==
    \A k \in 1..(Len(diffs) - 1) : diffs[k][1] # diffs[k + 1][1]

NoEmptyText(diffs) == \A k \in 1..Len(diffs) : diffs[k][2] # <<>>


\* ------------------------------------------------------------------ state

VARIABLES
    \* the diff engine called on its own
    text1,          \* diff_main's first argument
    text2,          \* diff_main's second argument
    given,          \* the diff array handed to diff_cleanupMerge
    before,         \* the array's content before the last cleanup call
    dmp,            \* the diff array: diff_main's result, then cleaned in place
    passes,         \* number of cleanup calls made on the array
    dpc,            \* "start", "main", "semantic", "given", "merged"
    \* updateProjectInWorkspace, one update of an existing file
    disk,           \* content of the file on disk
    doc,            \* text of the open document (the editor's buffer)
    dirty,          \* the document has edits that were not saved
    oldContent,     \* let oldContent (part_005:45), then the file's content
    newContent,     \* update.content || ''
    updatedFiles,   \* the counter of part_005:28
    cpc,            \* "start", "animating", "returned"
    \* updateFileWithAnimation
    pc,             \* position in the function
    diffs,          \* the diff sequence being replayed
    opIndex,        \* 1-based index of the op of the for-of loop
    i,              \* index of the inner loop
    position,       \* insertPosition or deleteStartPosition
    currentContent, \* the content the function tracks
    \* what happened so far in the call
    okEdits,        \* single-character edits that were applied
    failedEdits,    \* single-character edits that were rejected or threw
    thrown,         \* "none" or the step that threw into the catch block
    replaceResult,  \* outcome of the final replace: "none", "ok", "rejected", "throw"
    writeResult,    \* outcome of fs.writeFileSync in the catch: "none", "ok", "throw"
    verifications,  \* number of times line 133 compared the document's text
    edits,          \* the edits handed to workspace.applyEdit, in order
    anchors,        \* what indexOf returned for each Delete op, in order
    \* processUserRequest, one call
    env,            \* what determineAction finds: credentials and the response
    rpc,            \* position in processUserRequest
    action,         \* const action (part_004:22), "none" before
    llmCalled,      \* the callBedrock* function that was called, "none" before
    opsRun,         \* the workspace operations that were run, in order
    error,          \* the message of the error caught at part_004:67, or "none"
    result,         \* how the promise of processUserRequest settled
    \* the sendMessage handlers of the chat views
    handlers,       \* per message: its handler's position and its replay
    currentPanel,   \* ChatPanel.currentPanel: a panel's number, 0 if undefined
    livePanels,     \* the webview panels created and not disposed
    panelsCreated,  \* number of calls of createWebviewPanel
    lastCommand,    \* the last panel operation and what it did
    \* createFileWithAnimation, one call
    content,        \* the content to write
    fileOnDisk,     \* the file: "absent" or its text
    documentText,   \* text of the document opened on the file
    documentDirty,  \* the document has edits that were not saved
    currentText,    \* let currentText (fileAnimations.js:33)
    charIndex,      \* the loop's i: characters handled so far
    kpc,            \* position in createFileWithAnimation
    createThrown,   \* "none" or the step that threw
    rejectedWrites, \* replace edits the editor did not apply
    \* updateProjectInWorkspace, one call (its counter updatedFiles is above)
    workspaceFolders, \* a workspace folder is open
    updateStructure,  \* the argument: whether updates is an array, and it
    existing,       \* the paths of the files that exist
    entryIndex,     \* 1-based index of the entry of the for-of loop
    upc,            \* position in updateProjectInWorkspace
    createdFiles,   \* the counter of part_005:29
    timeline,       \* the animations' starts and ends and the notifications
    touched,        \* the entries for which the file system was used
    projectResult,  \* the string returned, "none" before
    \* deleteItemsInWorkspace, one call
    deleteStructure, \* the argument: whether deletes is an array, and it
    tree,           \* the paths of the files and folders that exist
    sortedDeletes,  \* const sortedDeletes (part_005:212)
    itemIndex,      \* 1-based index of the item of the for-of loop
    xpc,            \* position in deleteItemsInWorkspace
    deletedFiles,   \* the counter of part_005:216
    deletedFolders, \* the counter of part_005:217
    processed,      \* the items whose turn came, with what existsSync said
    deleteResult,   \* what was returned: "none", or the kind of message
    deleteThrown    \* "none" or the step that threw into the catch

diffVars == <<text1, text2, given, before, dmp, passes, dpc>>

callerVars == <<disk, doc, dirty, oldContent, newContent, updatedFiles, cpc>>

replayVars == <<pc, diffs, opIndex, i, position, currentContent,
                okEdits, failedEdits, thrown, replaceResult, writeResult,
                verifications, edits, anchors>>

requestVars == <<env, rpc, action, llmCalled, opsRun, error, result>>

chatVars == <<handlers, currentPanel, livePanels, panelsCreated, lastCommand>>

createVars == <<content, fileOnDisk, documentText, documentDirty,
                currentText, charIndex, kpc, createThrown, rejectedWrites>>

\* The variables of the replay, the diff engine, the request and the chat.
earlierVars == <<diffVars, callerVars, replayVars, requestVars, chatVars>>

projectVars == <<workspaceFolders, updateStructure, existing, entryIndex,
                 upc, createdFiles, timeline, touched, projectResult>>

deleteVars == <<deleteStructure, tree, sortedDeletes, itemIndex, xpc,
                deletedFiles, deletedFolders, processed, deleteResult,
                deleteThrown>>

\* The variables of the operations on the workspace's other files.
restVars == <<createVars, projectVars, deleteVars>>

vars == <<earlierVars, restVars>>

\* --------------------------------------------- the diff engine on its own

\* Number of cleanup calls made on one array.
MaxPasses == 2

ReplayIdle ==
    /\ disk = <<>> /\ doc = <<>> /\ dirty = FALSE
    /\ oldContent = <<>> /\ newContent = <<>>
    /\ updatedFiles = 0 /\ cpc = "idle"
    /\ pc = "idle" /\ diffs = <<>> /\ opIndex = 0 /\ i = 0 /\ position = 0
    /\ currentContent = <<>> /\ okEdits = 0 /\ failedEdits = 0
    /\ thrown = "none" /\ replaceResult = "none" /\ writeResult = "none"
    /\ verifications = 0 /\ edits = <<>> /\ anchors = <<>>

\* processUserRequest is not called.
RequestIdle ==
    /\ env = "none" /\ rpc = "idle" /\ action = "none" /\ llmCalled = "none"
    /\ opsRun = <<>> /\ error = "none" /\ result = "none"

\* No chat view is open.
ChatIdle ==
    /\ handlers = <<>>
    /\ currentPanel = 0 /\ livePanels = {} /\ panelsCreated = 0
    /\ lastCommand = [command |-> "none", did |-> "none"]

\* The diff engine is not called on its own.
DiffIdle ==
    /\ text1 = <<>> /\ text2 = <<>> /\ given = <<>> /\ before = <<>>
    /\ dmp = <<>> /\ passes = 0 /\ dpc = "idle"

\* createFileWithAnimation is not called.
CreateIdle ==
    /\ content = <<>> /\ fileOnDisk = "absent" /\ documentText = <<>>
    /\ documentDirty = FALSE /\ currentText = <<>> /\ charIndex = 0
    /\ kpc = "idle" /\ createThrown = "none" /\ rejectedWrites = 0

\* updateProjectInWorkspace is not called as a whole.
ProjectIdle ==
    /\ workspaceFolders = FALSE
    /\ updateStructure = [isArray |-> FALSE, updates |-> <<>>]
    /\ existing = {} /\ entryIndex = 0 /\ upc = "idle" /\ createdFiles = 0
    /\ timeline = <<>> /\ touched = {} /\ projectResult = "none"

\* deleteItemsInWorkspace is not called.
DeleteIdle ==
    /\ deleteStructure = [isArray |-> FALSE, deletes |-> <<>>]
    /\ tree = {} /\ sortedDeletes = <<>> /\ itemIndex = 0 /\ xpc = "idle"
    /\ deletedFiles = 0 /\ deletedFolders = 0 /\ processed = <<>>
    /\ deleteResult = "none" /\ deleteThrown = "none"

\* None of the operations on the workspace's other files is running.
RestIdle == CreateIdle /\ ProjectIdle /\ DeleteIdle

\* Either a pair of texts for diff_main, or a diff array for the cleanup.
InitDiff ==
    /\ \/ /\ dpc = "start"
          /\ text1 \in Strings /\ text2 \in Strings
          /\ given = <<>>
       \/ /\ dpc = "given"
          /\ text1 = <<>> /\ text2 = <<>>
          /\ \E n \in 0..MaxOps : given \in DiffSeqsOfLen(n)
    /\ dmp = given /\ before = given /\ passes = 0
    /\ ReplayIdle /\ RequestIdle /\ ChatIdle /\ RestIdle

\* const diffs = dmp.diff_main(text1, text2)
CallDiffMain ==
    /\ dpc = "start"
    /\ dmp' = diff_main(text1, text2)
    /\ dpc' = "main"
    /\ UNCHANGED <<text1, text2, given, before, passes>>
    /\ UNCHANGED <<callerVars, replayVars, requestVars, chatVars, restVars>>

\* dmp.diff_cleanupSemantic(diffs) on diff_main's result
CallCleanupSemantic ==
    /\ dpc = "main"
    /\ before' = dmp
    /\ dmp' = diff_cleanupSemantic(dmp)
    /\ passes' = passes + 1
    /\ dpc' = "semantic"
    /\ UNCHANGED <<text1, text2, given>>
    /\ UNCHANGED <<callerVars, replayVars, requestVars, chatVars, restVars>>

\* dmp.diff_cleanupMerge(diffs) on a given array, possibly again
CallCleanupMerge ==
    /\ dpc \in {"given", "merged"}
    /\ passes < MaxPasses
    /\ before' = dmp
    /\ dmp' = diff_cleanupMerge(dmp)
    /\ passes' = passes + 1
    /\ dpc' = "merged"
    /\ UNCHANGED <<text1, text2, given>>
    /\ UNCHANGED <<callerVars, replayVars, requestVars, chatVars, restVars>>

NextDiff == CallDiffMain \/ CallCleanupSemantic \/ CallCleanupMerge

SpecDiff == InitDiff /\ [][NextDiff]_vars

\* ------------------------------------- the document the replay works on

\* document.positionAt(offset): an offset past the end is the end.
positionAt(text, offset) == Max(0, Min(offset, Len(text)))

\* An insert that lands one position before the offset asked for.
insertAt_oneBefore(text, offset, ch) ==
    LET at == positionAt(text, offset - 1)
    IN  SubSeq(text, 1, at) \o ch \o SubSeq(text, at + 1, Len(text))

\* The document's text after edit.insert(uri, positionAt(offset), ch).
insertAt(text, offset, ch) ==
    LET at == positionAt(text, offset)
    IN  SubSeq(text, 1, at) \o ch \o SubSeq(text, at + 1, Len(text))

\* The document's text after
\* edit.delete(uri, new Range(positionAt(start), positionAt(end))).
deleteRange(text, start, end) ==
    LET from == positionAt(text, start)
        to == positionAt(text, end)
    IN  SubSeq(text, 1, from) \o SubSeq(text, to + 1, Len(text))

\* workspace.applyEdit resolves true (the edit was applied), resolves false
\* (it was not) or rejects; the code awaits it and ignores the value.
EditOutcomes == {"ok", "rejected", "throw"}

\* The text of the op of the current iteration of the for-of loop.
text == diffs[opIndex][2]

\* ---------------------- updateProjectInWorkspace, an update of a file

\* The document shows the file and has no unsaved edit; update.content is
\* any text.
Init ==
    /\ disk \in Strings
    /\ doc = disk /\ dirty = FALSE
    /\ oldContent = <<>>
    /\ newContent \in Strings
    /\ updatedFiles = 0 /\ cpc = "start"
    /\ pc = "idle" /\ diffs = <<>> /\ opIndex = 0 /\ i = 0 /\ position = 0
    /\ currentContent = <<>> /\ okEdits = 0 /\ failedEdits = 0
    /\ thrown = "none" /\ replaceResult = "none" /\ writeResult = "none"
    /\ verifications = 0 /\ edits = <<>> /\ anchors = <<>>
    /\ DiffIdle /\ RequestIdle /\ ChatIdle /\ RestIdle

\* part_005:48-54: the file exists; its content is read and
\* updateFileWithAnimation(filePath, oldContent, update.content || '') is
\* called.
UpdateExistingFile ==
    /\ cpc = "start"
    /\ oldContent' = disk
    /\ cpc' = "animating"
    /\ pc' = "open"
    /\ UNCHANGED <<disk, doc, dirty, newContent, updatedFiles>>
    /\ UNCHANGED <<diffs, opIndex, i, position, currentContent, okEdits,
                   failedEdits, thrown, replaceResult, writeResult>>
    /\ UNCHANGED <<verifications, edits, anchors>>
    /\ UNCHANGED <<diffVars, requestVars, chatVars, restVars>>

\* part_005:55-58: the replay returned; the file is counted as updated.
ReplayReturned ==
    /\ cpc = "animating" /\ pc = "done"
    /\ updatedFiles' = updatedFiles + 1
    /\ cpc' = "returned"
    /\ UNCHANGED <<disk, doc, dirty, oldContent, newContent>>
    /\ UNCHANGED replayVars
    /\ UNCHANGED <<diffVars, requestVars, chatVars, restVars>>

\* part_005:59-61: the replay threw; the error is logged and the loop goes
\* on to the message of line 74.
ReplayThrew ==
    /\ cpc = "animating" /\ pc = "threw"
    /\ cpc' = "returned"
    /\ UNCHANGED <<disk, doc, dirty, oldContent, newContent, updatedFiles>>
    /\ UNCHANGED replayVars
    /\ UNCHANGED <<diffVars, requestVars, chatVars, restVars>>

\* ------------------------------------------------ updateFileWithAnimation

\* Lines 63-64: openTextDocument and showTextDocument, which may reject.
OpenDocument ==
    /\ pc = "open"
    /\ \/ pc' = "settings" /\ UNCHANGED thrown
       \/ pc' = "catch" /\ thrown' = "open"
    /\ UNCHANGED <<diffs, opIndex, i, position, currentContent, okEdits,
                   failedEdits, replaceResult, writeResult>>
    /\ UNCHANGED callerVars
    /\ UNCHANGED <<verifications, edits, anchors>>
    /\ UNCHANGED <<diffVars, requestVars, chatVars, restVars>>

\* Lines 67-69: getAnimationSettings(). fileAnimations.js does not require
\* the function, so the call throws a ReferenceError unless the name is
\* bound in the global scope of the extension host.
GetAnimationSettings ==
    /\ pc = "settings"
    /\ \/ pc' = "diff" /\ UNCHANGED thrown
       \/ pc' = "catch" /\ thrown' = "settings"
    /\ UNCHANGED <<diffs, opIndex, i, position, currentContent, okEdits,
                   failedEdits, replaceResult, writeResult>>
    /\ UNCHANGED callerVars
    /\ UNCHANGED <<verifications, edits, anchors>>
    /\ UNCHANGED <<diffVars, requestVars, chatVars, restVars>>

\* Lines 72-77: the diff is computed and cleaned, currentContent starts as
\* oldContent.
ComputeDiff ==
    /\ pc = "diff"
    /\ diffs' = diff_cleanupSemantic(diff_main(oldContent, newContent))
    /\ currentContent' = oldContent
    /\ opIndex' = 0
    /\ pc' = "nextop"
    /\ UNCHANGED <<i, position, okEdits, failedEdits, thrown, replaceResult,
                   writeResult>>
    /\ UNCHANGED callerVars
    /\ UNCHANGED <<verifications, edits, anchors>>
    /\ UNCHANGED <<diffVars, requestVars, chatVars, restVars>>

\* Lines 80-86 and 105-109: the head of the for-of loop. An Equal op is
\* skipped; an Insert op is placed at the end of currentContent; a Delete
\* op is placed at the first occurrence of its text in currentContent and
\* skipped when there is none.
NextOp ==
    /\ pc = "nextop"
    /\ IF opIndex = Len(diffs)
       THEN pc' = "verify" /\ UNCHANGED <<opIndex, i, position, anchors>>
       ELSE LET op == diffs[opIndex + 1][1]
                txt == diffs[opIndex + 1][2]
            IN  /\ opIndex' = opIndex + 1
                /\ anchors' = IF op = -1
                              THEN Append(anchors,
                                          [op |-> opIndex + 1,
                                           at |-> indexOf(currentContent, txt)])
                              ELSE anchors
                /\ IF op = 1
                   THEN /\ position' = Len(currentContent)
                        /\ i' = 0
                        /\ pc' = IF Len(txt) > 0 THEN "insert" ELSE "nextop"
                   ELSE IF op = -1
                   THEN /\ position' = indexOf(currentContent, txt)
                        /\ i' = Len(txt) - 1
                        /\ pc' = IF position' # -1 /\ Len(txt) > 0
                                 THEN "delete" ELSE "nextop"
                   ELSE UNCHANGED <<i, position, pc>>
    /\ UNCHANGED <<diffs, currentContent, okEdits, failedEdits, thrown,
                   replaceResult, writeResult>>
    /\ UNCHANGED callerVars
    /\ UNCHANGED <<verifications, edits>>
    /\ UNCHANGED <<diffVars, requestVars, chatVars, restVars>>

\* Lines 88-104: one iteration of the insert loop.
InsertCharacter ==
    /\ pc = "insert"
    /\ \E outcome \in EditOutcomes :
        /\ doc' = IF outcome = "ok"
                  THEN insertAt(doc, position + i, <<text[i + 1]>>)
                  ELSE doc
        /\ edits' = Append(edits, [op |-> opIndex, unit |-> i, kind |-> 1,
                                   start |-> position + i,
                                   end |-> position + i,
                                   size |-> Len(<<text[i + 1]>>)])
        /\ dirty' = (dirty \/ doc' # doc)
        /\ okEdits' = IF outcome = "ok" THEN okEdits + 1 ELSE okEdits
        /\ failedEdits' = IF outcome = "ok" THEN failedEdits ELSE failedEdits + 1
        /\ IF outcome = "throw"
           THEN /\ pc' = "catch"
                /\ thrown' = "edit"
                /\ UNCHANGED <<currentContent, i>>
           ELSE /\ currentContent' = slice(currentContent, 0, position + i)
                                     \o <<text[i + 1]>>
                                     \o sliceFrom(currentContent, position + i)
                /\ i' = i + 1
                /\ pc' = IF i + 1 < Len(text) THEN "insert" ELSE "nextop"
                /\ UNCHANGED thrown
    /\ UNCHANGED <<diffs, opIndex, position, replaceResult, writeResult>>
    /\ UNCHANGED <<disk, oldContent, newContent, updatedFiles, cpc>>
    /\ UNCHANGED <<verifications, anchors>>
    /\ UNCHANGED <<diffVars, requestVars, chatVars, restVars>>

\* A delete loop that removes the op's whole text with one edit.
DeleteCharacter_wholeText ==
    /\ pc = "delete"
    /\ \E outcome \in EditOutcomes :
        /\ doc' = IF outcome = "ok"
                  THEN deleteRange(doc, position, position + Len(text))
                  ELSE doc
        /\ edits' = Append(edits, [op |-> opIndex, unit |-> 0, kind |-> -1,
                                   start |-> position,
                                   end |-> position + Len(text),
                                   size |-> Len(text)])
        /\ dirty' = (dirty \/ doc' # doc)
        /\ okEdits' = IF outcome = "ok" THEN okEdits + 1 ELSE okEdits
        /\ failedEdits' = IF outcome = "ok" THEN failedEdits ELSE failedEdits + 1
        /\ IF outcome = "throw"
           THEN /\ pc' = "catch"
                /\ thrown' = "edit"
                /\ UNCHANGED <<currentContent, i>>
           ELSE /\ currentContent' = slice(currentContent, 0, position)
                                     \o sliceFrom(currentContent,
                                                  position + Len(text))
                /\ i' = -1
                /\ pc' = "nextop"
                /\ UNCHANGED thrown
    /\ UNCHANGED <<diffs, opIndex, position, replaceResult, writeResult>>
    /\ UNCHANGED <<disk, oldContent, newContent, updatedFiles, cpc>>
    /\ UNCHANGED <<verifications, anchors>>
    /\ UNCHANGED <<diffVars, requestVars, chatVars, restVars>>

\* Lines 110-126: one iteration of the delete loop.
DeleteCharacter ==
    /\ pc = "delete"
    /\ \E outcome \in EditOutcomes :
        /\ doc' = IF outcome = "ok"
                  THEN deleteRange(doc, position + i, position + i + 1)
                  ELSE doc
        /\ edits' = Append(edits, [op |-> opIndex, unit |-> i, kind |-> -1,
                                   start |-> position + i,
                                   end |-> position + i + 1,
                                   size |-> (position + i + 1) - (position + i)])
        /\ dirty' = (dirty \/ doc' # doc)
        /\ okEdits' = IF outcome = "ok" THEN okEdits + 1 ELSE okEdits
        /\ failedEdits' = IF outcome = "ok" THEN failedEdits ELSE failedEdits + 1
        /\ IF outcome = "throw"
           THEN /\ pc' = "catch"
                /\ thrown' = "edit"
                /\ UNCHANGED <<currentContent, i>>
           ELSE /\ currentContent' = slice(currentContent, 0, position + i)
                                     \o sliceFrom(currentContent, position + i + 1)
                /\ i' = i - 1
                /\ pc' = IF i - 1 >= 0 THEN "delete" ELSE "nextop"
                /\ UNCHANGED thrown
    /\ UNCHANGED <<diffs, opIndex, position, replaceResult, writeResult>>
    /\ UNCHANGED <<disk, oldContent, newContent, updatedFiles, cpc>>
    /\ UNCHANGED <<verifications, anchors>>
    /\ UNCHANGED <<diffVars, requestVars, chatVars, restVars>>

\* The end of the function without the final comparison.
FinalVerification_skipped ==
    /\ pc = "verify"
    /\ pc' = "done"
    /\ UNCHANGED <<diffs, opIndex, i, position, currentContent, okEdits,
                   failedEdits, thrown, replaceResult, writeResult>>
    /\ UNCHANGED callerVars
    /\ UNCHANGED <<verifications, edits, anchors>>
    /\ UNCHANGED <<diffVars, requestVars, chatVars, restVars>>

\* A final step that replaces the document's text without comparing it.
FinalVerification_unconditional ==
    /\ pc = "verify"
    /\ \E outcome \in EditOutcomes :
          /\ replaceResult' = outcome
          /\ doc' = IF outcome = "ok" THEN newContent ELSE doc
          /\ dirty' = (dirty \/ outcome = "ok")
          /\ IF outcome = "throw"
             THEN pc' = "catch" /\ thrown' = "replace"
             ELSE pc' = "done" /\ UNCHANGED thrown
    /\ UNCHANGED <<diffs, opIndex, i, position, currentContent, okEdits,
                   failedEdits, writeResult>>
    /\ UNCHANGED <<disk, oldContent, newContent, updatedFiles, cpc>>
    /\ verifications' = verifications + 1
    /\ UNCHANGED <<edits, anchors>>
    /\ UNCHANGED <<diffVars, requestVars, chatVars, restVars>>

\* Lines 132-136: the document's text is compared with newContent and
\* replaced as a whole when it differs; the function then returns.
FinalVerification ==
    /\ pc = "verify"
    /\ IF doc # newContent
       THEN \E outcome \in EditOutcomes :
               /\ replaceResult' = outcome
               /\ doc' = IF outcome = "ok" THEN newContent ELSE doc
               /\ dirty' = (dirty \/ outcome = "ok")
               /\ IF outcome = "throw"
                  THEN pc' = "catch" /\ thrown' = "replace"
                  ELSE pc' = "done" /\ UNCHANGED thrown
       ELSE pc' = "done" /\ UNCHANGED <<doc, dirty, thrown, replaceResult>>
    /\ UNCHANGED <<diffs, opIndex, i, position, currentContent, okEdits,
                   failedEdits, writeResult>>
    /\ UNCHANGED <<disk, oldContent, newContent, updatedFiles, cpc>>
    /\ verifications' = verifications + 1
    /\ UNCHANGED <<edits, anchors>>
    /\ UNCHANGED <<diffVars, requestVars, chatVars, restVars>>

\* A catch block that logs the error and writes nothing.
CatchBlock_logOnly ==
    /\ pc = "catch"
    /\ pc' = "done"
    /\ UNCHANGED <<diffs, opIndex, i, position, currentContent, okEdits,
                   failedEdits, thrown, replaceResult, writeResult>>
    /\ UNCHANGED callerVars
    /\ UNCHANGED <<verifications, edits, anchors>>
    /\ UNCHANGED <<diffVars, requestVars, chatVars, restVars>>

\* Lines 137-141: the error is logged and fs.writeFileSync(filePath,
\* newContent) writes the file, not the document. The editor reloads a
\* document that has no unsaved edit when its file changes; a document with
\* unsaved edits keeps its text. A failing write throws out of the function.
CatchBlock ==
    /\ pc = "catch"
    /\ \/ /\ writeResult' = "ok"
          /\ disk' = newContent
          /\ doc' = IF dirty THEN doc ELSE newContent
          /\ pc' = "done"
       \/ /\ writeResult' = "throw"
          /\ pc' = "threw"
          /\ UNCHANGED <<disk, doc>>
    /\ UNCHANGED <<diffs, opIndex, i, position, currentContent, okEdits,
                   failedEdits, thrown, replaceResult>>
    /\ UNCHANGED <<dirty, oldContent, newContent, updatedFiles, cpc>>
    /\ UNCHANGED <<verifications, edits, anchors>>
    /\ UNCHANGED <<diffVars, requestVars, chatVars, restVars>>

Next ==
    \/ UpdateExistingFile
    \/ OpenDocument
    \/ GetAnimationSettings
    \/ ComputeDiff
    \/ NextOp
    \/ InsertCharacter
    \/ DeleteCharacter
    \/ FinalVerification
    \/ CatchBlock
    \/ ReplayReturned
    \/ ReplayThrew

Spec == Init /\ [][Next]_vars

\* -------------------------------------------------------- determineAction

\* part_002:92: the actions determineAction accepts.
ValidActions == {"create", "update", "search_and_modify", "delete"}

\* The values the "action" member of the model's answer can have: an
\* accepted action, another word, the empty string.
ActionValues == ValidActions \cup {"rename", ""}

\* The JSON text of an object whose only member is "action".
ActionJson(a) == "{\"action\":\"" \o a \o "\"}"

\* The texts the model can answer with: the JSON asked for, JSON of another
\* form, prose around the JSON, nothing.
JsonTexts ==
    {ActionJson(a) : a \in ActionValues}
        \cup {"{}", "null", "\"create\"", "Sure: {\"action\":\"update\"}", ""}

\* JSON.parse(jsonText): the value, or a SyntaxError for a text that is not
\* JSON (undefined, which is parsed as the text "undefined", included).
JSON_parse(jsonText) ==
    IF \E a \in ActionValues : jsonText = ActionJson(a)
    THEN [kind |-> "object",
          action |-> CHOOSE a \in ActionValues : jsonText = ActionJson(a)]
    ELSE IF jsonText = "{}" THEN [kind |-> "object", action |-> "undefined"]
    ELSE IF jsonText = "null" THEN [kind |-> "null", action |-> "undefined"]
    ELSE IF jsonText = "\"create\""
    THEN [kind |-> "string", action |-> "undefined"]
    ELSE [kind |-> "SyntaxError", action |-> "undefined"]

\* The truth value JavaScript gives a string or undefined.
truthy(v) == v # "undefined" /\ v # ""

\* The bodies a response can carry: it is not JSON; or it is an object whose
\* "content" is absent, a string, or an array of at most one block with or
\* without a "text", and whose "completion" is absent or a text.
ResponseBodies ==
    [parses : {FALSE}, content : {[kind |-> "absent", items |-> <<>>]},
     completion : {"undefined"}]
    \cup
    [parses : {TRUE},
     content : {[kind |-> "absent", items |-> <<>>],
                [kind |-> "string", items |-> <<>>],
                [kind |-> "array", items |-> <<>>]}
               \cup {[kind |-> "array", items |-> <<t>>] :
                        t \in JsonTexts \cup {"undefined"}},
     completion : JsonTexts \cup {"undefined"}]

\* What a call of determineAction finds: the two credentials in the
\* environment, whether invokeModel resolves, and the response's body.
Environments ==
    [accessKey : BOOLEAN, secretKey : BOOLEAN,
     invoke : {"resolves", "rejects"}, responseBody : ResponseBodies]

\* A completion of a block of code: it returns a value or it throws.
Return(v) == [completion |-> "return", value |-> v]
Throw(m) == [completion |-> "throw", value |-> m]

\* part_002:78-85: the text is taken from content[0].text or from
\* completion; content[0] of an empty array is undefined and reading its
\* text throws.
determineAction_jsonText(responseBody) ==
    IF responseBody.content.kind = "array"
    THEN IF Len(responseBody.content.items) = 0
         THEN Throw("TypeError")
         ELSE Return(responseBody.content.items[1])
    ELSE IF truthy(responseBody.completion)
    THEN Return(responseBody.completion)
    ELSE Throw("Unexpected response format from Bedrock")

\* The inner try without the test that the action is an accepted one.
determineAction_parse_unchecked(jsonText) ==
    LET actionObj == JSON_parse(jsonText)
    IN  IF actionObj.kind = "SyntaxError" THEN Return("create")
        ELSE IF actionObj.kind # "null" /\ truthy(actionObj.action)
        THEN Return(actionObj.action)
        ELSE Return("create")

\* part_002:90-101: the inner try. The action is returned when it is one of
\* the accepted ones; "create" is returned otherwise and when the text does
\* not parse.
determineAction_parse(jsonText) ==
    LET actionObj == JSON_parse(jsonText)
    IN  IF actionObj.kind = "SyntaxError" THEN Return("create")
        ELSE IF /\ actionObj.kind # "null"
                /\ truthy(actionObj.action)
                /\ actionObj.action \in ValidActions
        THEN Return(actionObj.action)
        ELSE Return("create")

\* part_002:16-101: the body of the outer try.
determineAction_try(e) ==
    IF ~e.accessKey \/ ~e.secretKey THEN Throw("AWS credentials not found")
    ELSE IF e.invoke = "rejects" THEN Throw("invokeModel")
    ELSE IF ~e.responseBody.parses THEN Throw("SyntaxError")
    ELSE LET jsonText == determineAction_jsonText(e.responseBody)
         IN  IF jsonText.completion = "throw" THEN jsonText
             ELSE determineAction_parse(jsonText.value)

\* part_002:15-106: how the promise of determineAction settles. The catch of
\* line 102 returns "create" for whatever the body threw.
determineAction(e) ==
    LET body == determineAction_try(e)
    IN  IF body.completion = "throw"
        THEN [settled |-> "resolved", value |-> "create"]
        ELSE [settled |-> "resolved", value |-> body.value]

\* ----------------------------------------------------- processUserRequest

\* A routing that applies updates for a search_and_modify request.
operationFor_updateForModify(a) ==
    CASE a = "create" -> "createProjectInWorkspace"
      [] a = "update" -> "updateProjectInWorkspace"
      [] a = "search_and_modify" -> "updateProjectInWorkspace"
      [] a = "delete" -> "deleteItemsInWorkspace"

\* part_004:25-63: the workspace operation each branch runs.
operationFor(a) ==
    CASE a = "create" -> "createProjectInWorkspace"
      [] a = "update" -> "updateProjectInWorkspace"
      [] a = "search_and_modify" -> "searchAndModifyInWorkspace"
      [] a = "delete" -> "deleteItemsInWorkspace"

\* part_004:27,36,47,58: the Bedrock call each branch makes.
bedrockCallFor(a) ==
    CASE a = "create" -> "callBedrockLLM"
      [] a = "update" -> "callBedrockForUpdates"
      [] a = "search_and_modify" -> "callBedrockForSearchAndModify"
      [] a = "delete" -> "callBedrockForDeletes"

\* The messages of the errors the Bedrock calls throw (part_002:121, 189,
\* 238, 242 and the same lines of the three other functions).
BedrockErrors ==
    {"AWS credentials not found", "Unexpected response format from Bedrock",
     "Could not parse valid JSON from the response", "invokeModel failed"}

\* The strings a workspace operation returns: each one catches what it
\* throws and returns a message (part_005:18, 74-77 and the same lines of the
\* three other functions).
WorkspaceResults(operation) ==
    {"No workspace is open. Please open a folder first.",
     operation \o ": completed",
     operation \o ": Error: EACCES"}

\* A promise resolved with a string.
ResolvedString(s) == [settled |-> "resolved", type |-> "string", text |-> s]

\* processUserRequest is called; determineAction will find any environment.
InitRequest ==
    /\ env \in Environments
    /\ rpc = "start" /\ action = "none" /\ llmCalled = "none"
    /\ opsRun = <<>> /\ error = "none" /\ result = "none"
    /\ DiffIdle /\ ReplayIdle /\ ChatIdle /\ RestIdle

\* part_004:16: new VisualEditorManager(), whose calls of the editor's API
\* may throw.
NewVisualEditorManager ==
    /\ rpc = "start"
    /\ \/ rpc' = "configure" /\ UNCHANGED error
       \/ rpc' = "catch" /\ error' = "createTextEditorDecorationType failed"
    /\ UNCHANGED <<env, action, llmCalled, opsRun, result>>
    /\ UNCHANGED <<diffVars, callerVars, replayVars, chatVars, restVars>>

\* part_004:19: configureAnimationSpeed(visualEditor), which reads the
\* configuration and may throw.
ConfigureAnimationSpeed ==
    /\ rpc = "configure"
    /\ \/ rpc' = "determine" /\ UNCHANGED error
       \/ rpc' = "catch" /\ error' = "getConfiguration failed"
    /\ UNCHANGED <<env, action, llmCalled, opsRun, result>>
    /\ UNCHANGED <<diffVars, callerVars, replayVars, chatVars, restVars>>

\* part_004:22-66: await determineAction(userPrompt) and the choice of the
\* branch. "create" goes to its Bedrock call, the three other actions first
\* read the project's structure, anything else returns the message of line
\* 65.
DetermineAction ==
    /\ rpc = "determine"
    /\ LET determined == determineAction(env)
       IN  IF determined.settled = "rejected"
           THEN /\ rpc' = "catch"
                /\ error' = determined.value
                /\ UNCHANGED <<action, result>>
           ELSE /\ action' = determined.value
                /\ UNCHANGED error
                /\ IF determined.value = "create"
                   THEN rpc' = "bedrock" /\ UNCHANGED result
                   ELSE IF determined.value \in
                               {"update", "search_and_modify", "delete"}
                   THEN rpc' = "structure" /\ UNCHANGED result
                   ELSE /\ rpc' = "returned"
                        /\ result' = ResolvedString("Unknown action determined. Please try again with a clearer request.")
    /\ UNCHANGED <<env, llmCalled, opsRun>>
    /\ UNCHANGED <<diffVars, callerVars, replayVars, chatVars, restVars>>

\* part_004:33,44,55: await getCurrentProjectStructure(), which throws
\* without a workspace (part_002:256) and rethrows what reading it threw.
GetCurrentProjectStructure ==
    /\ rpc = "structure"
    /\ \/ rpc' = "bedrock" /\ UNCHANGED error
       \/ /\ rpc' = "catch"
          /\ error' \in {"No workspace is open", "EACCES"}
    /\ UNCHANGED <<env, action, llmCalled, opsRun, result>>
    /\ UNCHANGED <<diffVars, callerVars, replayVars, chatVars, restVars>>

\* part_004:27,36,47,58: the Bedrock call of the branch, which resolves to
\* a structure or throws an Error.
CallBedrock ==
    /\ rpc = "bedrock"
    /\ llmCalled' = bedrockCallFor(action)
    /\ \/ rpc' = "workspace" /\ UNCHANGED error
       \/ rpc' = "catch" /\ error' \in BedrockErrors
    /\ UNCHANGED <<env, action, opsRun, result>>
    /\ UNCHANGED <<diffVars, callerVars, replayVars, chatVars, restVars>>

\* part_004:28-29,39-40,50-51,61-62: the workspace operation of the branch
\* is run and its result returned.
WorkspaceOperation ==
    /\ rpc = "workspace"
    /\ opsRun' = Append(opsRun, operationFor(action))
    /\ \E s \in WorkspaceResults(operationFor(action)) :
          result' = ResolvedString(s)
    /\ rpc' = "returned"
    /\ UNCHANGED <<env, action, llmCalled, error>>
    /\ UNCHANGED <<diffVars, callerVars, replayVars, chatVars, restVars>>

\* part_004:67-70: the catch returns the error's message in a string.
CatchError ==
    /\ rpc = "catch"
    /\ result' = ResolvedString("Error processing request: " \o error)
    /\ rpc' = "returned"
    /\ UNCHANGED <<env, action, llmCalled, opsRun, error>>
    /\ UNCHANGED <<diffVars, callerVars, replayVars, chatVars, restVars>>

NextRequest ==
    \/ NewVisualEditorManager
    \/ ConfigureAnimationSpeed
    \/ DetermineAction
    \/ GetCurrentProjectStructure
    \/ CallBedrock
    \/ WorkspaceOperation
    \/ CatchError

SpecRequest == InitRequest /\ [][NextRequest]_vars

\* ------------------------------------------ the chat views' handlers

\* Number of sendMessage events.
MaxMessages == 2

\* Number of single-character edits of one replay.
MaxUnits == 2

\* The files of the workspace an update can name.
Files == {"index.html", "app.js"}

\* The two views that handle sendMessage: the panel (ChatPanel.js:42-75) and
\* the side bar's view (ChatPanel.js:383-413).
Views == {"ChatPanel", "ChatViewProvider"}

\* Number of webview panels that are created.
MaxPanels == 2

\* The state of the ChatPanel class and of its webview panels.
panelVars == <<currentPanel, livePanels, panelsCreated, lastCommand>>

\* ChatPanel.js:10: static currentPanel = undefined; no message was sent. The
\* side bar's view is resolved, no panel is.
InitChat ==
    /\ handlers = [m \in 1..MaxMessages |->
                      [view |-> "none", hpc |-> "unsent", file |-> "none",
                       unitsLeft |-> 0, panel |-> 0, posts |-> <<>>]]
    /\ currentPanel = 0 /\ livePanels = {} /\ panelsCreated = 0
    /\ lastCommand = [command |-> "none", did |-> "none"]
    /\ DiffIdle /\ ReplayIdle /\ RequestIdle /\ RestIdle

\* ChatPanel.js:339-341: the panel is revealed; nothing of the state changes.
reveal(command) ==
    /\ lastCommand' = [command |-> command, did |-> "reveal"]
    /\ UNCHANGED <<currentPanel, livePanels, panelsCreated>>

\* ChatPanel.js:13-31: createOrShow; called with currentPanel set it reveals
\* that panel and returns, otherwise it creates a webview panel and stores
\* the new ChatPanel in currentPanel.
createOrShow_alwaysCreates(command) ==
    /\ panelsCreated < MaxPanels
    /\ panelsCreated' = panelsCreated + 1
    /\ livePanels' = livePanels \cup {panelsCreated + 1}
    /\ currentPanel' = panelsCreated + 1
    /\ lastCommand' = [command |-> command, did |-> "create"]

createOrShow(command) ==
    IF currentPanel # 0
    THEN reveal(command)
    ELSE /\ panelsCreated < MaxPanels
         /\ panelsCreated' = panelsCreated + 1
         /\ livePanels' = livePanels \cup {panelsCreated + 1}
         /\ currentPanel' = panelsCreated + 1
         /\ lastCommand' = [command |-> command, did |-> "create"]

\* extension.js:20-22: the command codealchemy.openChat.
OpenChat ==
    /\ createOrShow("openChat")
    /\ UNCHANGED handlers
    /\ UNCHANGED <<diffVars, callerVars, replayVars, requestVars, restVars>>

\* extension.js:25-35: the command codealchemy.showChatPanel.
ShowChatPanel ==
    /\ IF currentPanel # 0
       THEN reveal("showChatPanel")
       ELSE createOrShow("showChatPanel")
    /\ UNCHANGED handlers
    /\ UNCHANGED <<diffVars, callerVars, replayVars, requestVars, restVars>>

\* ChatPanel.js:40 and 343-354: the user closes panel p, the panel is
\* disposed and its onDidDispose listener calls dispose(), which clears
\* currentPanel; this._panel.dispose() on the disposed panel does nothing.
\* A handler of the panel that is suspended at an await stays suspended.
dispose(p) ==
    /\ p \in livePanels
    /\ livePanels' = livePanels \ {p}
    /\ currentPanel' = 0
    /\ lastCommand' = [command |-> "dispose", did |-> "dispose"]
    /\ UNCHANGED <<handlers, panelsCreated>>
    /\ UNCHANGED <<diffVars, callerVars, replayVars, requestVars, restVars>>

\* The view of handler m is live: the side bar's view always, the panel
\* the handler was registered on (this._panel of the closure) until it is
\* disposed.
viewLive(m) ==
    handlers[m].view = "ChatPanel" => handlers[m].panel \in livePanels

\* ChatPanel.js:45-55 and 386-396: a view receives a sendMessage event and
\* its async handler posts "Processing your request..." with isProcessing
\* true and calls processUserRequest. The handler is started whatever the
\* handlers of earlier messages are doing. A panel receives events while it
\* is live.
ReceiveSendMessage(m, v) ==
    /\ handlers[m].hpc = "unsent"
    /\ \A earlier \in 1..(m - 1) : handlers[earlier].hpc # "unsent"
    /\ v = "ChatPanel" => currentPanel \in livePanels
    /\ handlers' = [handlers EXCEPT
                       ![m].view = v, ![m].hpc = "processing",
                       ![m].panel = IF v = "ChatPanel" THEN currentPanel ELSE 0,
                       ![m].posts = <<TRUE>>]
    /\ UNCHANGED panelVars
    /\ UNCHANGED <<diffVars, callerVars, replayVars, requestVars, restVars>>

\* part_004:39 and part_005:48-54: the request is an update and the loop of
\* updateProjectInWorkspace reaches an existing file: updateFileWithAnimation
\* is called on it and suspends at its first await.
StartReplay(m, f, n) ==
    /\ handlers[m].hpc = "processing"
    /\ handlers' = [handlers EXCEPT ![m].hpc = "replaying", ![m].file = f,
                                    ![m].unitsLeft = n]
    /\ UNCHANGED panelVars
    /\ UNCHANGED <<diffVars, callerVars, replayVars, requestVars, restVars>>

\* fileAnimations.js:88-104 and 110-126: the replay resumes, applies one
\* single-character edit and suspends again at the await of the delay.
ReplayUnitStep(m) ==
    /\ handlers[m].hpc = "replaying"
    /\ handlers[m].unitsLeft > 0
    /\ handlers' = [handlers EXCEPT ![m].unitsLeft = @ - 1]
    /\ UNCHANGED panelVars
    /\ UNCHANGED <<diffVars, callerVars, replayVars, requestVars, restVars>>

\* fileAnimations.js:131-142 and part_005:55-72: the replay returns and the
\* loop of updateProjectInWorkspace goes on with the next file.
FinishReplay(m) ==
    /\ handlers[m].hpc = "replaying"
    /\ handlers[m].unitsLeft = 0
    /\ handlers' = [handlers EXCEPT ![m].hpc = "processing",
                                    ![m].file = "none"]
    /\ UNCHANGED panelVars
    /\ UNCHANGED <<diffVars, callerVars, replayVars, requestVars, restVars>>

\* ChatPanel.js:57-62 and 398-403: processUserRequest resolved (it never
\* rejects, part_004:67-70) and the handler posts the result with
\* isProcessing false.
PostResult(m) ==
    /\ handlers[m].hpc = "processing"
    /\ viewLive(m)
    /\ handlers' = [handlers EXCEPT ![m].hpc = "posted",
                                    ![m].posts = Append(@, FALSE)]
    /\ UNCHANGED panelVars
    /\ UNCHANGED <<diffVars, callerVars, replayVars, requestVars, restVars>>

\* ChatPanel.js:57-69: processUserRequest resolved after the panel was
\* disposed. this._panel.webview of a disposed WebviewPanel throws "Webview
\* is disposed": the post of the result throws inside the try, the catch
\* block reads this._panel.webview again and throws too, and the handler's
\* promise rejects with nothing posted.
PostOnDisposedPanel(m) ==
    /\ handlers[m].hpc = "processing"
    /\ ~viewLive(m)
    /\ handlers' = [handlers EXCEPT ![m].hpc = "rejected"]
    /\ UNCHANGED panelVars
    /\ UNCHANGED <<diffVars, callerVars, replayVars, requestVars, restVars>>

NextChat ==
    \/ OpenChat
    \/ ShowChatPanel
    \/ \E p \in 1..MaxPanels : dispose(p)
    \/ \E m \in 1..MaxMessages :
        \/ \E v \in Views : ReceiveSendMessage(m, v)
        \/ \E f \in Files, n \in 1..MaxUnits : StartReplay(m, f, n)
        \/ ReplayUnitStep(m)
        \/ FinishReplay(m)
        \/ PostResult(m)
        \/ PostOnDisposedPanel(m)

SpecChat == InitChat /\ [][NextChat]_vars

\* ------------------------------------------------ createFileWithAnimation

\* Nothing of the replay, the diff engine, the request or the chat runs.
EarlierIdle == DiffIdle /\ ReplayIdle /\ RequestIdle /\ ChatIdle

\* The document's text after
\* edit.replace(uri, new Range(0, 0, document.lineCount, 0), newText): the
\* range's end is past the last line and is clamped to the end of the text.
replaceAll(documentBefore, newText) ==
    SubSeq(documentBefore, 1, positionAt(documentBefore, 0)) \o newText
        \o SubSeq(documentBefore,
                  positionAt(documentBefore, Len(documentBefore) + 1) + 1,
                  Len(documentBefore))

\* createFileWithAnimation(filePath, content, visualEditor) is called for a
\* file that does not exist, with any content.
InitCreate ==
    /\ content \in Strings
    /\ fileOnDisk = "absent" /\ documentText = <<>> /\ documentDirty = FALSE
    /\ currentText = <<>> /\ charIndex = 0
    /\ kpc = "start" /\ createThrown = "none" /\ rejectedWrites = 0
    /\ EarlierIdle /\ ProjectIdle /\ DeleteIdle

\* Lines 14-20: the directory is made and the empty file written, outside
\* the try: a failure rejects the call.
CreateEmptyFile ==
    /\ kpc = "start"
    /\ \/ fileOnDisk' = <<>> /\ kpc' = "open" /\ UNCHANGED createThrown
       \/ kpc' = "threw" /\ createThrown' = "writeEmpty" /\ UNCHANGED fileOnDisk
    /\ UNCHANGED <<content, documentText, documentDirty, currentText,
                   charIndex, rejectedWrites>>
    /\ UNCHANGED <<earlierVars, projectVars, deleteVars>>

\* Lines 24-25: the document is opened on the file and shown.
OpenCreatedDocument ==
    /\ kpc = "open"
    /\ \/ /\ documentText' = fileOnDisk
          /\ kpc' = "settings"
          /\ UNCHANGED createThrown
       \/ /\ kpc' = "catch" /\ createThrown' = "open"
          /\ UNCHANGED documentText
    /\ UNCHANGED <<content, fileOnDisk, documentDirty, currentText, charIndex,
                   rejectedWrites>>
    /\ UNCHANGED <<earlierVars, projectVars, deleteVars>>

\* Lines 28-33: getAnimationSettings(), a name fileAnimations.js does not
\* require: the call throws a ReferenceError unless the name is bound in
\* the global scope; then currentText = ''.
CreateGetAnimationSettings ==
    /\ kpc = "settings"
    /\ \/ kpc' = "loop" /\ currentText' = <<>> /\ UNCHANGED createThrown
       \/ kpc' = "catch" /\ createThrown' = "settings" /\ UNCHANGED currentText
    /\ UNCHANGED <<content, fileOnDisk, documentText, documentDirty,
                   charIndex, rejectedWrites>>
    /\ UNCHANGED <<earlierVars, projectVars, deleteVars>>

\* Lines 35-45: one iteration of the loop: the next character is appended
\* to currentText and the whole document is replaced by currentText.
WriteCharacter ==
    /\ kpc = "loop"
    /\ charIndex < Len(content)
    /\ currentText' = currentText \o <<content[charIndex + 1]>>
    /\ \E outcome \in EditOutcomes :
          /\ documentText' = IF outcome = "ok"
                             THEN replaceAll(documentText, currentText')
                             ELSE documentText
          /\ documentDirty' = (documentDirty \/ outcome = "ok")
          /\ rejectedWrites' = IF outcome = "rejected"
                               THEN rejectedWrites + 1 ELSE rejectedWrites
          /\ IF outcome = "throw"
             THEN kpc' = "catch" /\ createThrown' = "edit" /\ UNCHANGED charIndex
             ELSE /\ charIndex' = charIndex + 1
                  /\ UNCHANGED <<kpc, createThrown>>
    /\ UNCHANGED <<content, fileOnDisk>>
    /\ UNCHANGED <<earlierVars, projectVars, deleteVars>>

\* Line 35 and 51: the loop's condition fails and the function returns.
CreateReturn ==
    /\ kpc = "loop"
    /\ charIndex = Len(content)
    /\ kpc' = "returned"
    /\ UNCHANGED <<content, fileOnDisk, documentText, documentDirty,
                   currentText, charIndex, createThrown, rejectedWrites>>
    /\ UNCHANGED <<earlierVars, projectVars, deleteVars>>

\* Lines 46-50: the catch logs the error and writes the file with the
\* whole content; a document without unsaved edits is reloaded from it. A
\* failing write throws out of the function.
CreateCatchBlock ==
    /\ kpc = "catch"
    /\ \/ /\ fileOnDisk' = content
          /\ documentText' = IF documentDirty THEN documentText ELSE content
          /\ kpc' = "returned"
       \/ /\ kpc' = "threw"
          /\ UNCHANGED <<fileOnDisk, documentText>>
    /\ UNCHANGED <<content, documentDirty, currentText, charIndex,
                   createThrown, rejectedWrites>>
    /\ UNCHANGED <<earlierVars, projectVars, deleteVars>>

NextCreate ==
    \/ CreateEmptyFile
    \/ OpenCreatedDocument
    \/ CreateGetAnimationSettings
    \/ WriteCharacter
    \/ CreateReturn
    \/ CreateCatchBlock

SpecCreate == InitCreate /\ [][NextCreate]_vars

\* ------------------------------------------------ updateProjectInWorkspace

\* Number of entries of updateStructure.updates.
MaxEntries == 2

\* The paths an entry can name; the empty path stands for a missing one.
Paths == {"", "a.txt", "b.txt"}

\* The entries of updates: a type and a path.
UpdateEntries == [type : {"file", "folder"}, path : Paths]

\* An entry that is always processed.
skipped_never(update) == FALSE

\* part_005:32: update.type !== "file" || !update.path
skipped(update) == update.type # "file" \/ ~truthy(update.path)

\* updateProjectInWorkspace(updateStructure, visualEditor) is called with
\* any list of entries, on any set of existing files.
InitProject ==
    /\ workspaceFolders \in BOOLEAN
    /\ \E n \in 0..MaxEntries, isArray \in BOOLEAN :
          /\ updateStructure \in [isArray : {isArray},
                                  updates : [1..n -> UpdateEntries]]
          /\ isArray \/ n = 0
    /\ existing \in SUBSET (Paths \ {""})
    /\ entryIndex = 0 /\ upc = "start" /\ createdFiles = 0
    /\ timeline = <<>> /\ touched = {} /\ projectResult = "none"
    /\ EarlierIdle /\ CreateIdle /\ DeleteIdle

\* What the actions of updateProjectInWorkspace leave alone.
ProjectFrame ==
    /\ UNCHANGED <<disk, doc, dirty, oldContent, newContent, cpc>>
    /\ UNCHANGED <<diffVars, replayVars, requestVars, chatVars, createVars,
                   deleteVars>>
    /\ UNCHANGED <<workspaceFolders, updateStructure>>

\* The entry of the current iteration of the for-of loop.
update == updateStructure.updates[entryIndex]

\* part_005:16-29: the checks before the loop.
CheckWorkspace ==
    /\ upc = "start"
    /\ IF ~workspaceFolders
       THEN /\ projectResult' = "No workspace is open. Please open a folder first."
            /\ upc' = "returned"
       ELSE IF ~updateStructure.isArray
       THEN /\ projectResult' = "No updates specified in the structure."
            /\ upc' = "returned"
       ELSE upc' = "next" /\ UNCHANGED projectResult
    /\ UNCHANGED <<existing, entryIndex, createdFiles, timeline, touched,
                   updatedFiles>>
    /\ ProjectFrame

\* part_005:31-46 and 74: the head of the for-of loop. After the last entry
\* the counts are returned; an entry that is not a file or has no path is
\* skipped; for another one the directory is made, which may throw, and the
\* branch is chosen by fs.existsSync(filePath).
NextUpdate ==
    /\ upc = "next"
    /\ IF entryIndex = Len(updateStructure.updates)
       THEN /\ projectResult' = "Project updated successfully."
            /\ upc' = "returned"
            /\ UNCHANGED <<entryIndex, touched>>
       ELSE LET next == updateStructure.updates[entryIndex + 1]
            IN  /\ entryIndex' = entryIndex + 1
                /\ UNCHANGED projectResult
                /\ IF skipped(next)
                   THEN UNCHANGED <<upc, touched>>
                   ELSE /\ touched' = touched \cup {entryIndex + 1}
                        /\ \/ upc' = IF next.path \in existing
                                     THEN "updateStart" ELSE "createStart"
                           \/ upc' = "catch"
    /\ UNCHANGED <<existing, createdFiles, timeline, updatedFiles>>
    /\ ProjectFrame

\* part_005:50-54: the file is read, showOperationStart is awaited and
\* updateFileWithAnimation is called; a throw of the first two is caught by
\* the inner catch (59-61).
StartUpdateAnimation ==
    /\ upc = "updateStart"
    /\ \/ /\ upc' = "updateAnimation"
          /\ timeline' = Append(timeline, [entry |-> entryIndex,
                                           what |-> "animationStart"])
       \/ upc' = "next" /\ UNCHANGED timeline
    /\ UNCHANGED <<existing, entryIndex, createdFiles, touched, projectResult,
                   updatedFiles>>
    /\ ProjectFrame

\* part_005:54-55 and 59-61: updateFileWithAnimation returns and the file
\* is counted, or it throws into the inner catch.
FinishUpdateAnimation ==
    /\ upc = "updateAnimation"
    /\ timeline' = Append(timeline, [entry |-> entryIndex,
                                     what |-> "animationEnd"])
    /\ \/ upc' = "updateComplete" /\ updatedFiles' = updatedFiles + 1
       \/ upc' = "next" /\ UNCHANGED updatedFiles
    /\ UNCHANGED <<existing, entryIndex, createdFiles, touched, projectResult>>
    /\ ProjectFrame

\* part_005:58: await visualEditor.showOperationComplete('Update', ...),
\* inside the inner try.
CompleteUpdate ==
    /\ upc = "updateComplete"
    /\ \/ timeline' = Append(timeline, [entry |-> entryIndex,
                                        what |-> "notified"])
       \/ UNCHANGED timeline
    /\ upc' = "next"
    /\ UNCHANGED <<existing, entryIndex, createdFiles, touched, projectResult,
                   updatedFiles>>
    /\ ProjectFrame

\* part_005:63-66: showOperationStart is awaited and
\* createFileWithAnimation is called; a throw goes to the outer catch.
StartCreateAnimation ==
    /\ upc = "createStart"
    /\ \/ /\ upc' = "createAnimation"
          /\ timeline' = Append(timeline, [entry |-> entryIndex,
                                           what |-> "animationStart"])
       \/ upc' = "catch" /\ UNCHANGED timeline
    /\ UNCHANGED <<existing, entryIndex, createdFiles, touched, projectResult,
                   updatedFiles>>
    /\ ProjectFrame

\* part_005:66-67: createFileWithAnimation returns, the file exists and is
\* counted; or it rejects, with or without the empty file written.
FinishCreateAnimation ==
    /\ upc = "createAnimation"
    /\ timeline' = Append(timeline, [entry |-> entryIndex,
                                     what |-> "animationEnd"])
    /\ \/ /\ upc' = "createComplete"
          /\ createdFiles' = createdFiles + 1
          /\ existing' = existing \cup {update.path}
       \/ /\ upc' = "catch"
          /\ UNCHANGED createdFiles
          /\ existing' \in {existing, existing \cup {update.path}}
    /\ UNCHANGED <<entryIndex, touched, projectResult, updatedFiles>>
    /\ ProjectFrame

\* part_005:70: await visualEditor.showOperationComplete('Create', ...); a
\* throw goes to the outer catch.
CompleteCreate ==
    /\ upc = "createComplete"
    /\ \/ /\ timeline' = Append(timeline, [entry |-> entryIndex,
                                           what |-> "notified"])
          /\ upc' = "next"
       \/ upc' = "catch" /\ UNCHANGED timeline
    /\ UNCHANGED <<existing, entryIndex, createdFiles, touched, projectResult,
                   updatedFiles>>
    /\ ProjectFrame

\* part_005:75-78: the outer catch returns the error's message.
CatchProjectError ==
    /\ upc = "catch"
    /\ projectResult' = "Error updating project"
    /\ upc' = "returned"
    /\ UNCHANGED <<existing, entryIndex, createdFiles, timeline, touched,
                   updatedFiles>>
    /\ ProjectFrame

NextProject ==
    \/ CheckWorkspace
    \/ NextUpdate
    \/ StartUpdateAnimation
    \/ FinishUpdateAnimation
    \/ CompleteUpdate
    \/ StartCreateAnimation
    \/ FinishCreateAnimation
    \/ CompleteCreate
    \/ CatchProjectError

SpecProject == InitProject /\ [][NextProject]_vars

\* ------------------------------------------------- deleteItemsInWorkspace

\* Number of entries of deleteStructure.deletes.
MaxDeletes == 2

\* The folder, the file inside it and the file beside it that can exist.
TreePaths == {"src", "src/a.js", "b.js"}

\* The pairs <<item, folder>> with the item inside the folder.
Inside == {<<"src/a.js", "src">>}

\* The paths that are folders.
Directories == {"src"}

\* The entries of deletes: one without a path, one with an empty path, and
\* one for each path.
DeleteItems ==
    {[hasPath |-> FALSE, path |-> ""]}
        \cup {[hasPath |-> TRUE, path |-> p] : p \in TreePaths \cup {""}}

\* The states of the file system: a file exists only inside a folder that
\* exists.
Trees ==
    {t \in SUBSET TreePaths :
        \A pair \in Inside : pair[1] \in t => pair[2] \in t}

\* The array after the item is inserted behind the items whose path is at
\* least as long.
RECURSIVE insertByLength(_, _)
insertByLength(sorted, item) ==
    IF sorted = <<>> THEN <<item>>
    ELSE IF Len(Head(sorted).path) >= Len(item.path)
    THEN <<Head(sorted)>> \o insertByLength(Tail(sorted), item)
    ELSE <<item>> \o sorted

\* The items inserted one after the other into the sorted array.
RECURSIVE sortLoop(_)
sortLoop(items) ==
    IF items = <<>> THEN <<>>
    ELSE insertByLength(sortLoop(SubSeq(items, 1, Len(items) - 1)),
                        items[Len(items)])

\* A sort that puts the shortest path first.
sortByPathLength_ascending(items) ==
    LET sorted == sortLoop(items)
    IN  [k \in 1..Len(sorted) |-> sorted[Len(sorted) + 1 - k]]

\* part_005:212-214: [...deletes].sort((a, b) => b.path.length -
\* a.path.length), a stable sort by path length, longest first.
sortByPathLength(items) == sortLoop(items)

\* part_005:213: the comparator reads path.length of both items and throws
\* a TypeError for an item without a path; sort calls it when the array has
\* two items or more.
comparatorThrows(items) ==
    Len(items) >= 2 /\ \E k \in 1..Len(items) : ~items[k].hasPath

\* The file system after fs.rmdirSync(itemPath, {recursive: true}) or
\* fs.unlinkSync(itemPath).
removed(t, itemPath) ==
    {q \in t : q # itemPath /\ <<q, itemPath>> \notin Inside}

\* deleteItemsInWorkspace(deleteStructure, visualEditor) is called with any
\* list of entries, on any state of the file system.
InitDelete ==
    /\ \E n \in 0..MaxDeletes, isArray \in BOOLEAN :
          /\ deleteStructure \in [isArray : {isArray},
                                  deletes : [1..n -> DeleteItems]]
          /\ isArray \/ n = 0
    /\ tree \in Trees
    /\ sortedDeletes = <<>> /\ itemIndex = 0 /\ xpc = "start"
    /\ deletedFiles = 0 /\ deletedFolders = 0 /\ processed = <<>>
    /\ deleteResult = "none" /\ deleteThrown = "none"
    /\ EarlierIdle /\ CreateIdle /\ ProjectIdle

\* What the actions of deleteItemsInWorkspace leave alone.
DeleteFrame ==
    /\ UNCHANGED <<earlierVars, createVars, projectVars>>
    /\ UNCHANGED deleteStructure

\* The item of the current iteration of the for-of loop.
item == sortedDeletes[itemIndex]

\* part_005:199-209: the checks before the sort; workspaceFolders is read
\* from the editor.
CheckDeletes ==
    /\ xpc = "start"
    /\ \/ xpc' = "returned" /\ deleteResult' = "No workspace is open"
       \/ IF ~deleteStructure.isArray
          THEN xpc' = "returned" /\ deleteResult' = "No items specified"
          ELSE xpc' = "sort" /\ UNCHANGED deleteResult
    /\ UNCHANGED <<tree, sortedDeletes, itemIndex, deletedFiles,
                   deletedFolders, processed, deleteThrown>>
    /\ DeleteFrame

\* part_005:212-217: the copy of deletes is sorted; a throw of the
\* comparator goes to the catch.
SortDeletes ==
    /\ xpc = "sort"
    /\ IF comparatorThrows(deleteStructure.deletes)
       THEN /\ xpc' = "catch" /\ deleteThrown' = "sort"
            /\ UNCHANGED sortedDeletes
       ELSE /\ sortedDeletes' = sortByPathLength(deleteStructure.deletes)
            /\ xpc' = "next"
            /\ UNCHANGED deleteThrown
    /\ UNCHANGED <<tree, itemIndex, deletedFiles, deletedFolders, processed,
                   deleteResult>>
    /\ DeleteFrame

\* part_005:219-229 and 260: the head of the for-of loop. After the last
\* item the counts are returned; an item without a path and an item that
\* does not exist are skipped; another one is deleted as a folder or as a
\* file.
NextItem ==
    /\ xpc = "next"
    /\ IF itemIndex = Len(sortedDeletes)
       THEN /\ xpc' = "returned" /\ deleteResult' = "Deleted"
            /\ UNCHANGED <<itemIndex, processed>>
       ELSE LET next == sortedDeletes[itemIndex + 1]
            IN  /\ itemIndex' = itemIndex + 1
                /\ UNCHANGED deleteResult
                /\ IF ~truthy(next.path)
                   THEN UNCHANGED <<xpc, processed>>
                   ELSE /\ processed' =
                              Append(processed,
                                     [path |-> next.path,
                                      existed |-> next.path \in tree])
                        /\ xpc' = IF next.path \notin tree THEN "next"
                                  ELSE IF next.path \in Directories
                                  THEN "deleteDirectory" ELSE "deleteFile"
    /\ UNCHANGED <<tree, sortedDeletes, deletedFiles, deletedFolders,
                   deleteThrown>>
    /\ DeleteFrame

\* part_005:232-236: the folder is removed with what it holds and counted;
\* showOperationStart or rmdirSync may throw.
DeleteDirectory ==
    /\ xpc = "deleteDirectory"
    /\ \/ /\ tree' = removed(tree, item.path)
          /\ deletedFolders' = deletedFolders + 1
          /\ xpc' = "next"
          /\ UNCHANGED deleteThrown
       \/ /\ xpc' = "catch" /\ deleteThrown' = "deleteDirectory"
          /\ UNCHANGED <<tree, deletedFolders>>
    /\ UNCHANGED <<sortedDeletes, itemIndex, deletedFiles, processed,
                   deleteResult>>
    /\ DeleteFrame

\* part_005:238-256: the file is shown, unlinked and counted, in the try or,
\* when showing it throws, in the catch; showOperationStart or unlinkSync
\* may throw.
DeleteFile ==
    /\ xpc = "deleteFile"
    /\ \/ /\ tree' = removed(tree, item.path)
          /\ deletedFiles' = deletedFiles + 1
          /\ xpc' = "next"
          /\ UNCHANGED deleteThrown
       \/ /\ xpc' = "catch" /\ deleteThrown' = "deleteFile"
          /\ UNCHANGED <<tree, deletedFiles>>
    /\ UNCHANGED <<sortedDeletes, itemIndex, deletedFolders, processed,
                   deleteResult>>
    /\ DeleteFrame

\* part_005:261-264: the catch returns the error's message.
CatchDeleteError ==
    /\ xpc = "catch"
    /\ deleteResult' = "Error deleting items"
    /\ xpc' = "returned"
    /\ UNCHANGED <<tree, sortedDeletes, itemIndex, deletedFiles,
                   deletedFolders, processed, deleteThrown>>
    /\ DeleteFrame

NextDelete ==
    \/ CheckDeletes
    \/ SortDeletes
    \/ NextItem
    \/ DeleteDirectory
    \/ DeleteFile
    \/ CatchDeleteError

SpecDelete == InitDelete /\ [][NextDelete]_vars

\* --------------------------------------------------- claims on the replay

\* The call returned through the final verification: nothing threw.
ReplayCompleted == pc = "done" /\ thrown = "none"

\* C1 (replay correctness): when the replay of diff_main(old, new) on a
\* document that starts as old returns with every edit applied, the
\* document's text is new.
C1_ReplayCorrect ==
    (ReplayCompleted /\ failedEdits = 0 /\ replaceResult # "rejected")
        => doc = newContent

C1_Witness ==
    /\ ReplayCompleted /\ failedEdits = 0
    /\ okEdits >= 2 /\ replaceResult = "ok"
    /\ oldContent # newContent /\ doc = newContent

\* C3 (no partial terminal state): when an edit of the replay throws, after
\* any number of applied single-character edits, and the fallback write is
\* made, the document's text at the end of the call is newText.
C3_NoPartialTerminalState ==
    (pc = "done" /\ thrown \in {"edit", "replace"})
        => (writeResult = "ok" /\ doc = newContent)

C5_FallbackFailureSurfaced ==
    (replaceResult = "rejected" \/ writeResult = "throw")
        => (pc # "done" /\ updatedFiles = 0)

\* ----------------------------------------------- claims on the diff engine

\* C2 (round trip): in diff_main(a, b) the Delete and Equal texts, in order,
\* spell a, and the Equal and Insert texts, in order, spell b.
C2_RoundTrip ==
    dpc = "main" => SourceText(dmp) = text1 /\ TargetText(dmp) = text2

\* C6 (identity): diff_main(a, a) is the empty sequence when a is empty and
\* the single op Equal a otherwise.
C6_Identity ==
    (dpc = "main" /\ text1 = text2) =>
        dmp = (IF text1 = <<>> THEN <<>> ELSE << <<0, text1>> >>)

C6_Witness ==
    dpc = "main" /\ text1 = text2 /\ Len(text1) >= 2 /\ dmp = << <<0, text1>> >>

\* C7 (pure insert/delete): diff_main("", b) is the single op Insert b for a
\* non-empty b, diff_main(a, "") is the single op Delete a for a non-empty a,
\* and diff_main("", "") is the empty sequence.
C7_PureInsertDelete ==
    dpc = "main" =>
        /\ (text1 = <<>> /\ text2 # <<>>) => dmp = << <<1, text2>> >>
        /\ (text1 # <<>> /\ text2 = <<>>) => dmp = << <<-1, text1>> >>
        /\ (text1 = <<>> /\ text2 = <<>>) => dmp = <<>>

C7_Witness ==
    dpc = "main" /\ text1 # <<>> /\ text2 = <<>> /\ Len(text1) >= 2
        /\ dmp = << <<-1, text1>> >>

\* C8 (normalization): neither the sequence diff_main returns, nor the one
\* diff_cleanupSemantic or diff_cleanupMerge leaves, has two adjacent ops of
\* the same kind.
C8_Normalized ==
    dpc \in {"main", "semantic", "merged"} => NoAdjacentSameKind(dmp)

C8_Witness ==
    /\ dpc = "merged" /\ passes = 1
    /\ Len(given) = 3 /\ Len(dmp) = 2
    /\ NoAdjacentSameKind(dmp)

\* C9 (no empty op): every op diff_main returns has a non-empty text, and
\* the result is the empty sequence exactly when both inputs are empty.
C9_NoEmptyOp ==
    dpc = "main" =>
        /\ NoEmptyText(dmp)
        /\ dmp = <<>> <=> (text1 = <<>> /\ text2 = <<>>)

C9_Witness ==
    dpc = "main" /\ Len(dmp) >= 3 /\ NoEmptyText(dmp)

\* C10 (idempotent cleanup): a second diff_cleanupMerge leaves the array as
\* the first one left it.
C10_IdempotentCleanup ==
    (dpc = "merged" /\ passes >= 2) => dmp = before

C10_Witness ==
    dpc = "merged" /\ passes = 2 /\ before # given /\ dmp = before

\* The longest common prefix of two texts, and the longest common suffix of
\* what is left of them after that prefix, as lengths.
LongestCommonPrefix(a, b) ==
    CHOOSE k \in 0..Min(Len(a), Len(b)) :
        /\ SubSeq(a, 1, k) = SubSeq(b, 1, k)
        /\ k = Min(Len(a), Len(b)) \/ a[k + 1] # b[k + 1]

LongestCommonSuffix(a, b) ==
    CHOOSE k \in 0..Min(Len(a), Len(b)) :
        /\ SubSeq(a, Len(a) - k + 1, Len(a)) = SubSeq(b, Len(b) - k + 1, Len(b))
        /\ k = Min(Len(a), Len(b)) \/ a[Len(a) - k] # b[Len(b) - k]

SuffixAfterPrefix(a, b) ==
    LET p == LongestCommonPrefix(a, b)
    IN  LongestCommonSuffix(SubSeq(a, p + 1, Len(a)), SubSeq(b, p + 1, Len(b)))

\* a without the common prefix and the non-overlapping common suffix.
Remainder(a, b) ==
    SubSeq(a, LongestCommonPrefix(a, b) + 1, Len(a) - SuffixAfterPrefix(a, b))

OpsOfKind(d, kind) == {k \in 1..Len(d) : d[k][1] = kind}

\* C11 (cleanup drops empty ops): the array diff_cleanupMerge leaves has no
\* op with an empty text, no two adjacent ops of one kind, and for each kind
\* the same concatenated text as the array it was given.
C11_CleanupDropsEmptyOps ==
    (dpc = "merged" /\ passes = 1) =>
        /\ NoEmptyText(dmp)
        /\ NoAdjacentSameKind(dmp)
        /\ \A kind \in Ops : ConcatKinds(dmp, {kind}) = ConcatKinds(given, {kind})

\* C12 (coarse diff with context): when the texts differ and both stripped
\* remainders are non-empty, diff_main returns Equal P (if P is non-empty),
\* Delete of the old remainder, Insert of the new remainder, Equal S (if S
\* is non-empty), P and S being the common prefix and suffix of the old text.
C12_CoarseDiffWithContext ==
    (dpc = "main" /\ text1 # text2
        /\ Remainder(text1, text2) # <<>> /\ Remainder(text2, text1) # <<>>) =>
        LET p == LongestCommonPrefix(text1, text2)
            s == SuffixAfterPrefix(text1, text2)
            pre == IF p > 0 THEN << <<0, SubSeq(text1, 1, p)>> >> ELSE <<>>
            suf == IF s > 0
                   THEN << <<0, SubSeq(text1, Len(text1) - s + 1, Len(text1))>> >>
                   ELSE <<>>
        IN  dmp = pre \o << <<-1, Remainder(text1, text2)>>,
                            <<1, Remainder(text2, text1)>> >> \o suf

\* C13 (suffix does not overlap prefix): the prefix length p and the suffix
\* length s that diff_main trims satisfy p + s <= min(len(old), len(new)),
\* and the stripped remainders are old[p .. len(old)-s), new[p .. len(new)-s).
C13_SuffixDoesNotOverlapPrefix ==
    (dpc = "main" /\ text1 # text2) =>
        LET p == diff_main_commonPrefix(text1, text2)
            s == diff_main_commonSuffix(text1, text2)
        IN  /\ p + s <= Min(Len(text1), Len(text2))
            /\ substring(text1, p, Len(text1) - s) = SubSeq(text1, p + 1, Len(text1) - s)
            /\ substring(text2, p, Len(text2) - s) = SubSeq(text2, p + 1, Len(text2) - s)

\* C18 (pure insertion or deletion in shared context): when the texts differ
\* and the stripped old remainder is empty, diff_main's result has no Delete
\* and exactly one Insert, of the stripped new remainder; when the stripped
\* new remainder is empty it has no Insert and exactly one Delete, of the
\* stripped old remainder.
C18_PureChangeInContext ==
    (dpc = "main" /\ text1 # text2) =>
        /\ Remainder(text1, text2) = <<>> =>
            /\ OpsOfKind(dmp, -1) = {}
            /\ Cardinality(OpsOfKind(dmp, 1)) = 1
            /\ \A k \in OpsOfKind(dmp, 1) : dmp[k][2] = Remainder(text2, text1)
        /\ Remainder(text2, text1) = <<>> =>
            /\ OpsOfKind(dmp, 1) = {}
            /\ Cardinality(OpsOfKind(dmp, -1)) = 1
            /\ \A k \in OpsOfKind(dmp, -1) : dmp[k][2] = Remainder(text1, text2)


\* ----------------------------------------- claims on the replay's steps

\* The call is over: it returned or it threw to its caller.
ReplayOver == pc \in {"done", "threw"}

\* The call ended with the document's text found equal to newContent and
\* no corrective write.
EndedDone ==
    /\ pc = "done" /\ doc = newContent
    /\ replaceResult = "none" /\ writeResult = "none"

\* The call ended after a corrective write: the replace of line 135 was
\* applied or the file was written by the catch block.
EndedFallbackApplied ==
    /\ pc = "done"
    /\ replaceResult = "ok" \/ writeResult = "ok"

\* C14 (states of a replay call): a call that is over has compared the
\* document's text with newContent exactly once, and it ended either with
\* the text matching and no corrective write, or after a corrective write.
C14_VerifiedOnceThenDoneOrFallback ==
    ReplayOver => /\ verifications = 1
                  /\ EndedDone \/ EndedFallbackApplied

\* The edits issued for the op of index k, in the order they were issued.
EditsOfOp(k) == SelectSeq(edits, LAMBDA e : e.op = k)

\* The loop is done with the op of index k and no edit of it threw.
OpReplayed(k) ==
    \/ k < opIndex
    \/ k = opIndex /\ pc \notin {"insert", "delete"} /\ thrown # "edit"

\* What indexOf returned for the Delete op of index k, -1 before the loop
\* reaches it.
AnchorOf(k) ==
    LET S == {j \in 1..Len(anchors) : anchors[j].op = k}
    IN  IF S = {} THEN -1 ELSE anchors[CHOOSE j \in S : TRUE].at

\* The cursor of the specification's player when it reaches unit number
\* unit (from 0) of the op of index k: the lengths of the Equal and Insert
\* ops before it, plus the units of the op already inserted.
RECURSIVE CursorBefore(_, _)
CursorBefore(d, k) ==
    IF k <= 1 THEN 0
    ELSE CursorBefore(d, k - 1)
         + (IF d[k - 1][1] \in {0, 1} THEN Len(d[k - 1][2]) ELSE 0)

\* C19 (insert position and order): every insert edit of the replay is
\* issued at the cursor, which starts at 0 and advances by the length of
\* each Equal op and by one for each inserted unit.
C19_InsertAtCursor ==
    \A e \in 1..Len(edits) :
        edits[e].kind = 1
            => edits[e].start = CursorBefore(diffs, edits[e].op) + edits[e].unit

\* C20 (delete order and granularity): for a Delete op whose text was found
\* at offset d and whose loop is over, the edits issued are exactly
\* len(text) deletes of the ranges [d+i, d+i+1), for i from len(text)-1
\* down to 0 in this order; and every edit issued by the replay inserts or
\* deletes one character.
C20_DeleteRightToLeftByUnit ==
    /\ \A k \in 1..Len(diffs) :
          (diffs[k][1] = -1 /\ OpReplayed(k) /\ AnchorOf(k) # -1)
              => LET es == EditsOfOp(k)
                     n == Len(diffs[k][2])
                     d == AnchorOf(k)
                 IN  /\ Len(es) = n
                     /\ \A j \in 1..n :
                           /\ es[j].kind = -1
                           /\ es[j].unit = n - j
                           /\ es[j].start = d + (n - j)
                           /\ es[j].end = d + (n - j) + 1
    /\ \A e \in 1..Len(edits) : edits[e].size = 1

\* A Delete op of two characters or more was replayed to its end, after
\* its text was found.
C20_Witness ==
    /\ pc = "done"
    /\ \E k \in 1..Len(diffs) :
          /\ diffs[k][1] = -1 /\ Len(diffs[k][2]) >= 2
          /\ OpReplayed(k) /\ AnchorOf(k) # -1
          /\ Len(EditsOfOp(k)) >= 2


\* ------------------------------------------------- claims on the requests

\* C15 (one replay per document): no two handlers are inside a replay of
\* the same file at the same time.
C15_OneReplayPerDocument ==
    \A m1, m2 \in 1..MaxMessages :
        (/\ m1 # m2
         /\ handlers[m1].hpc = "replaying"
         /\ handlers[m2].hpc = "replaying")
            => handlers[m1].file # handlers[m2].file

\* The text determineAction is answered with, when the call succeeded and
\* the response carries a text.
AnswerOf(e) ==
    IF ~(e.accessKey /\ e.secretKey /\ e.invoke = "resolves"
         /\ e.responseBody.parses)
    THEN "undefined"
    ELSE IF e.responseBody.content.kind = "array"
    THEN IF e.responseBody.content.items = <<>> THEN "undefined"
         ELSE e.responseBody.content.items[1]
    ELSE e.responseBody.completion

\* The answer is the JSON of one of the four actions.
AnsweredWith(e, a) == a \in ValidActions /\ AnswerOf(e) = ActionJson(a)

\* C16 (determineAction is total): the promise of determineAction resolves,
\* and the action processUserRequest receives is one of the four: the
\* model's action when the answer parses to one of the four, "create" in
\* every other case.
C16_DetermineActionTotal ==
    /\ rpc # "idle" => determineAction(env).settled = "resolved"
    /\ action # "none" =>
          /\ action \in ValidActions
          /\ \A a \in ValidActions : AnsweredWith(env, a) => action = a
          /\ (~ \E a \in ValidActions : AnsweredWith(env, a))
                => action = "create"

\* The model answered with an action that is not the default and
\* determineAction returned it.
C16_Witness ==
    /\ action = "search_and_modify"
    /\ AnsweredWith(env, "search_and_modify")

\* The workspace operation the claim pairs with each action.
MatchingOperation(a) ==
    CASE a = "create" -> "createProjectInWorkspace"
      [] a = "update" -> "updateProjectInWorkspace"
      [] a = "search_and_modify" -> "searchAndModifyInWorkspace"
      [] a = "delete" -> "deleteItemsInWorkspace"
      [] OTHER -> "none"

\* C17 (processUserRequest is total): the promise resolves with a string;
\* at most one workspace operation is run and it is the one that matches
\* the action; a call in which nothing threw ran it; a call in which a
\* collaborator threw ran none and returns "Error processing request: "
\* followed by the error's message.
C17_RequestAlwaysResolvesToString ==
    /\ rpc = "returned" => /\ result.settled = "resolved"
                           /\ result.type = "string"
    /\ Len(opsRun) <= 1
    /\ \A k \in 1..Len(opsRun) : opsRun[k] = MatchingOperation(action)
    /\ (rpc = "returned" /\ error = "none")
          => opsRun = <<MatchingOperation(action)>>
    /\ error # "none"
          => /\ opsRun = <<>>
             /\ rpc = "returned"
                   => result.text = "Error processing request: " \o error

\* A search_and_modify request went through and its operation was run.
C17_Witness ==
    /\ rpc = "returned" /\ error = "none"
    /\ action = "search_and_modify"
    /\ opsRun = <<"searchAndModifyInWorkspace">>


\* ------------------------------------ claims on the replay's bookkeeping

\* C21 (delete anchor): the text of a Delete op is searched from the cursor
\* the preceding ops reached, so the occurrence found is never before it.
C21_DeleteAnchorFromCursor ==
    \A j \in 1..Len(anchors) :
        anchors[j].at # -1
            => anchors[j].at >= CursorBefore(diffs, anchors[j].op)

\* C23 (corrective replace): the step that ends the loop's replay issues
\* the replace exactly when the document's text differs from newContent,
\* and there is at most one such step in a call.
C23_ReplaceIffDiffers ==
    /\ [][(pc = "verify" /\ pc' # "verify")
            => ((replaceResult' # "none") <=> (doc # newContent))]_vars
    /\ [](verifications <= 1)

\* The animated edits produced newContent and the call ended with no
\* replace.
C23_Witness ==
    /\ pc = "done" /\ verifications = 1 /\ okEdits > 0
    /\ replaceResult = "none" /\ doc = newContent

\* C24 (tracked content): between the diff and the final verification, as
\* long as every edit issued was applied, currentContent is the document's
\* text; both are oldContent when the loop starts.
C24_TrackedContentIsDocument ==
    /\ (pc \in {"nextop", "insert", "delete", "verify"} /\ failedEdits = 0)
          => currentContent = doc
    /\ (pc = "nextop" /\ opIndex = 0)
          => (currentContent = oldContent /\ doc = oldContent)

\* An insert and a delete were applied and the loop goes on.
C24_Witness ==
    /\ pc \in {"nextop", "insert", "delete", "verify"}
    /\ failedEdits = 0
    /\ \E e1, e2 \in 1..Len(edits) : edits[e1].kind = 1 /\ edits[e2].kind = -1


\* ----------------------------------------- claims on the workspace's files

\* C25 (file creation): the file starts empty; after the k-th step of the
\* loop the document's text is the first k characters of content, and
\* content after the last one; a call in which a step threw ends with the
\* file on disk holding the whole content.
C25_CreatedCharacterByCharacter ==
    /\ kpc = "open" => fileOnDisk = <<>>
    /\ (kpc \in {"loop", "returned"} /\ createThrown = "none")
          => documentText = SubSeq(content, 1, charIndex)
    /\ (kpc = "returned" /\ createThrown = "none") => documentText = content
    /\ (kpc \in {"returned", "threw"}
          /\ createThrown \in {"open", "settings", "edit"})
          => fileOnDisk = content


\* The entries of updates that are files and have a path.
FileEntries ==
    {k \in 1..Len(updateStructure.updates) :
        /\ updateStructure.updates[k].type = "file"
        /\ updateStructure.updates[k].path # ""}

\* The positions of the timeline at which an animation started.
AnimationStarts ==
    {p \in 1..Len(timeline) : timeline[p].what = "animationStart"}

\* C26 (entries in order, one at a time): the animations and notifications
\* follow the list's order; when an animation starts, every animation
\* started before it has ended; only entries that are files with a path use
\* the file system; and createdFiles + updatedFiles is at most the number
\* of such entries.
C26_EntriesInOrderOneAtATime ==
    /\ \A p, q \in 1..Len(timeline) :
          p < q => timeline[p].entry <= timeline[q].entry
    /\ \A p, q \in AnimationStarts :
          p < q => /\ timeline[p].entry < timeline[q].entry
                   /\ \E e \in (p + 1)..(q - 1) :
                         /\ timeline[e].what = "animationEnd"
                         /\ timeline[e].entry = timeline[p].entry
    /\ touched \subseteq FileEntries
    /\ createdFiles + updatedFiles <= Cardinality(FileEntries)

\* A call returned its counts after it created one file and updated
\* another, with an entry skipped or not.
C26_Witness ==
    /\ upc = "returned" /\ projectResult = "Project updated successfully."
    /\ createdFiles = 1 /\ updatedFiles = 1
    /\ Cardinality(AnimationStarts) = 2


\* The items of the log that existed when their turn came.
ExistedWhenProcessed == {p \in 1..Len(processed) : processed[p].existed}

\* C27 (order of deletion): the items are taken in non-increasing order of
\* path length, an item inside a listed folder before the folder; an item
\* that does not exist is skipped; and between two items, as in the counts
\* returned, deletedFiles + deletedFolders is the number of items that
\* existed when their turn came.
C27_LongestPathFirst ==
    /\ \A p, q \in 1..Len(processed) :
          p < q => Len(processed[p].path) >= Len(processed[q].path)
    /\ \A p, q \in 1..Len(processed) :
          <<processed[p].path, processed[q].path>> \in Inside => p < q
    /\ (xpc = "next" \/ deleteResult = "Deleted")
          => deletedFiles + deletedFolders = Cardinality(ExistedWhenProcessed)

\* The file inside the folder and the folder were both listed and deleted,
\* the file first.
C27_Witness ==
    /\ deleteResult = "Deleted"
    /\ deletedFiles = 1 /\ deletedFolders = 1
    /\ Len(processed) = 2
    /\ <<processed[1].path, processed[2].path>> \in Inside

\* The paths listed, of the items that have one.
ListedPaths ==
    {deleteStructure.deletes[k].path : k \in 1..Len(deleteStructure.deletes)}
        \ {""}

\* C28 (entry without a path): when an entry of deletes has no path and no
\* deletion of an item fails, the call returns the counts and no listed
\* item is left in the file system.
C28_EntryWithoutPathSkipped ==
    (/\ xpc = "returned"
     /\ deleteStructure.isArray
     /\ deleteResult # "No workspace is open"
     /\ deleteThrown \notin {"deleteDirectory", "deleteFile"}
     /\ \E k \in 1..Len(deleteStructure.deletes) :
           ~deleteStructure.deletes[k].hasPath)
        => /\ deleteResult = "Deleted"
           /\ ListedPaths \cap tree = {}

\* ---------------------------------------------- claims on the chat views

\* The handler of message m returned or its promise rejected.
HandlerOver(m) == handlers[m].hpc \in {"posted", "rejected"}

\* C29 (processing message, then one final message): every handler that was
\* started posted a message with isProcessing true first; while it is
\* awaiting processUserRequest that is its only post, and once it is over
\* it posted exactly one more message, with isProcessing false, whatever the
\* other handlers did meanwhile.
C29_ProcessingThenOneFinal ==
    \A m \in 1..MaxMessages :
        handlers[m].hpc # "unsent" =>
            IF HandlerOver(m)
            THEN handlers[m].posts = <<TRUE, FALSE>>
            ELSE handlers[m].posts = <<TRUE>>

\* A step of a panel operation: it records what it did.
PanelStep == lastCommand' # lastCommand

\* C30 (ChatPanel is a singleton): at most one panel is live and
\* currentPanel is set exactly when a panel is live, to that panel;
\* createOrShow or showChatPanel with a panel set only reveals it, nothing
\* is created; dispose leaves currentPanel undefined, and with currentPanel
\* undefined createOrShow or showChatPanel creates a panel that was never
\* created before and makes it the current one.
C30_ChatPanelIsSingleton ==
    /\ [](/\ Cardinality(livePanels) <= 1
          /\ (currentPanel # 0) <=> (livePanels # {})
          /\ currentPanel # 0 => livePanels = {currentPanel})
    /\ [][PanelStep =>
            /\ (lastCommand'.command \in {"openChat", "showChatPanel"}
                /\ currentPanel # 0)
                  => /\ lastCommand'.did = "reveal"
                     /\ UNCHANGED <<currentPanel, livePanels, panelsCreated>>
            /\ (lastCommand'.command \in {"openChat", "showChatPanel"}
                /\ currentPanel = 0)
                  => /\ lastCommand'.did = "create"
                     /\ panelsCreated' = panelsCreated + 1
                     /\ currentPanel' \notin 0..panelsCreated
                     /\ livePanels' = {currentPanel'}
            /\ lastCommand'.command = "dispose"
                  => currentPanel' = 0 /\ livePanels' = {}]_vars

\* A panel was created, disposed, a second one was created by the next
\* createOrShow and then revealed by a command that found it live.
C30_Witness ==
    /\ panelsCreated >= 2
    /\ livePanels = {currentPanel}
    /\ lastCommand.did = "reveal"

====
